---- MODULE Spec2Model ----
(***************************************************************************)
(* Model of the quota-aware, checkpointed, resumable collection loop of    *)
(* the YouTube monitoring pipeline:                                        *)
(*   - the quota ledger kept by YouTubeAPIClient (src/src/youtube_client.py)*)
(*   - the budget gate, the checkpoint protocol and the source loop of     *)
(*     ComprehensiveCollector (src/collect.py)                             *)
(*   - the run record of Database (src/src/database.py)                    *)
(*                                                                         *)
(* Specifications:                                                         *)
(*   SpecLedger  one YouTubeAPIClient, seeded, recording request costs     *)
(*   Spec        a campaign of processes, each one call of run()           *)
(*   SpecLookup  get_channel_info called on one client                     *)
(*   SpecCheckpoint  save_checkpoint followed by load_checkpoint           *)
(*   SpecCrash   save_checkpoint in a process that may be killed           *)
(*   SpecFetch   the first process, the fetches of each source in detail   *)
(*   SpecInterrupt   SpecFetch interrupted by the user                     *)
(*   SpecScenario    one process over sources that resolve without videos  *)
(*   SpecStore   Database.insert_channel called on one database            *)
(*   SpecComments    get_video_comments called on one client               *)
(*   SpecBurst   the fetches of one source whose listings never end        *)
(*   SpecRuns    runs started and ended on one database                    *)
(***************************************************************************)
EXTENDS Integers, Sequences, FiniteSets, TLC

VARIABLES
    \* ---- YouTubeAPIClient (the ledger) ----
    quota_usage,        \* self.quota_usage: session counter
    quota_cumulative,   \* self.quota_cumulative: cumulative counter
    initial_quota,      \* the initial_quota argument of the constructor
    recorded,           \* history: sum of the costs recorded so far
    resetCalled,        \* history: reset_quota_counter was called
    lastRequest,        \* history: result of the last _make_request call
    \* ---- ComprehensiveCollector configuration ----
    daily_quota,        \* self.daily_quota
    quota_buffer,       \* self.quota_buffer
    max_failures,       \* error_handling.max_consecutive_failures
    checkpoint_interval,\* output.checkpoint_every_n_channels
    max_retries,        \* api.max_retries, self.max_retries of the client
    \* ---- one process: ComprehensiveCollector.run ----
    pc,                 \* position of the process in run()
    session,            \* number of processes started so far
    start_from,         \* local start_from
    idx,                \* local idx (0: not bound yet)
    stats,              \* self.stats
    videos,             \* local videos of collect_channel (their number)
    \* ---- persistent state ----
    checkpoint,         \* latest_checkpoint.json (NoFile or its content)
    runs,               \* table collection_runs, indexed by run_id
    db,                 \* what was handed to insert_video / insert_comments_batch
    \* ---- the paginated fetches of one collect_channel call ----
    fetch,              \* locals of collect_all_videos / collect_all_comments
    \* ---- history ----
    hist                \* record of history variables (see InitHist)

ledgerVars == <<quota_usage, quota_cumulative, initial_quota, recorded,
                resetCalled, lastRequest>>
configVars == <<daily_quota, quota_buffer, max_failures, checkpoint_interval,
                max_retries>>
procVars == <<pc, session, start_from, idx, stats, videos>>
storeVars == <<checkpoint, runs, db>>
vars == <<ledgerVars, configVars, procVars, storeVars, fetch, hist>>

-----------------------------------------------------------------------------
(* Bounds of the model *)

MaxSeed == 2          \* largest initial_quota tried
MaxCost == 2          \* largest quota_cost of one request
MaxQuota == 5         \* cap on the session counter in SpecLedger
MaxDaily == 3         \* largest daily_quota tried in SpecLedger
MaxBuffer == 1        \* largest quota_buffer tried in SpecLedger
NumSources == 3       \* length of the source list
MaxSessions == 2      \* number of processes of one campaign
MaxVideos == 1        \* largest number of videos of one channel
MaxLookupCost == 1    \* largest charge of one channel lookup in Spec
MaxPages == 2         \* largest number of pages of one listing in SpecFetch
MaxRetries == 3       \* largest max_retries tried in SpecLedger
MaxInserts == 3       \* number of insert_channel calls in SpecStore
MaxComments == 3      \* largest max_results given to get_video_comments
MaxThreads == 2       \* largest number of comment threads of a video
MaxReplies == 2       \* largest number of replies of a comment thread
ScenarioSources == 5  \* length of the source list in SpecScenario
MaxRuns == 3          \* number of collection runs started in SpecRuns
MaxCumulative == 2    \* largest quota value given to end_collection_run
BurstPages == 5       \* cap on the pages requested by one fetch in SpecBurst

(* Configurations tried *)

FailureLimits == {1, 2}   \* error_handling.max_consecutive_failures
Intervals == {1, 2}       \* output.checkpoint_every_n_channels
QuotaLimits == {<<4, 1>>} \* rate_limiting: <<daily_quota, quota_buffer>>

(* Program constants *)

DefaultRetries == 3   \* YouTubeAPIClient.__init__: default of max_retries
DefaultMaxFailures == 5   \* run(): default of max_consecutive_failures
DefaultInterval == 10     \* run(): default of checkpoint_every_n_channels
PageSize == 100       \* get_video_comments: largest maxResults of one page
retry_delay == 2      \* YouTubeAPIClient.__init__: default of retry_delay

-----------------------------------------------------------------------------
(* YouTubeAPIClient._make_request: the retry loop.                         *)
(* outcomes[k] is what request_func() does on attempt k:                   *)
(*   "ok"        returns a response                                        *)
(*   "quota"     raises HttpError with status 403 or 429                   *)
(*   "transient" raises HttpError with another status                      *)
(*   "other"     raises another exception                                  *)
(* The result names the disposition, the number of attempts made and the   *)
(* cost added to both counters.                                            *)

Outcomes == {"ok", "quota", "transient", "other"}

(* A faulty variant: a quota error is handled like any other HttpError. *)
IsQuotaErrorNever(o) == FALSE

(* Line 68: e.resp.status in [403, 429] *)
IsQuotaError(o) == o = "quota"

(* A faulty variant: only the first attempt is retried. *)
MayRetryFirstOnly(attempt) == attempt < 1

(* Line 71: attempt < self.max_retries - 1 *)
MayRetry(attempt) == attempt < max_retries - 1

(* A faulty variant: the delay does not grow with the attempt. *)
BackoffConstant(attempt) == retry_delay

(* Line 73: the argument of time.sleep *)
Backoff(attempt) == retry_delay * (attempt + 1)

(* The result names the disposition ("ok": a response is returned,         *)
(* "raised": the error is raised, "none": None is returned), the number of *)
(* request_func calls, the cost added to both counters and the delays      *)
(* slept, in order.                                                        *)
RECURSIVE RequestLoop(_, _, _)
RequestLoop(outcomes, attempt, quota_cost) ==
    IF attempt >= max_retries
    THEN [status |-> "none", attempts |-> attempt, cost |-> 0, waits |-> <<>>]
    ELSE LET o == outcomes[attempt + 1] IN
         CASE o = "ok" ->
                [status |-> "ok", attempts |-> attempt + 1, cost |-> quota_cost,
                 waits |-> <<>>]
           [] o \in {"quota", "transient"} ->
                IF IsQuotaError(o)
                THEN [status |-> "raised", attempts |-> attempt + 1, cost |-> 0,
                      waits |-> <<>>]
                ELSE IF MayRetry(attempt)
                THEN LET rest == RequestLoop(outcomes, attempt + 1, quota_cost) IN
                     [rest EXCEPT !.waits = <<Backoff(attempt)>> \o @]
                ELSE [status |-> "raised", attempts |-> attempt + 1, cost |-> 0,
                      waits |-> <<>>]
           [] OTHER ->
                [status |-> "raised", attempts |-> attempt + 1, cost |-> 0,
                 waits |-> <<>>]

MakeRequestResult(outcomes, quota_cost) == RequestLoop(outcomes, 0, quota_cost)

(* What the caller was given: the number of leading attempts that fail     *)
(* with a transient HttpError and the outcome of the attempt after them    *)
(* ("none": there is no such attempt).                                     *)
RECURSIVE Transients(_, _)
Transients(outcomes, n) ==
    IF n < max_retries /\ outcomes[n + 1] = "transient"
    THEN Transients(outcomes, n + 1) ELSE n

Given(outcomes, quota_cost) ==
    LET k == Transients(outcomes, 0) IN
    [transients |-> k,
     after |-> IF k < max_retries THEN outcomes[k + 1] ELSE "none",
     quota_cost |-> quota_cost]

(* A faulty variant: the cost is charged for every attempt, failed ones included. *)
RecordCostPerAttempt(r) ==
    /\ quota_usage' = quota_usage + r.attempts * (IF r.cost = 0 THEN 1 ELSE r.cost)
    /\ quota_cumulative' = quota_cumulative + r.attempts * (IF r.cost = 0 THEN 1 ELSE r.cost)

(* A faulty variant: the cost is added to the session counter only. *)
RecordCostSessionOnly(r) ==
    /\ quota_usage' = quota_usage + r.cost
    /\ quota_cumulative' = quota_cumulative

(* Lines 58-59: both counters grow by the cost of a successful request. *)
RecordCost(r) ==
    /\ quota_usage' = quota_usage + r.cost
    /\ quota_cumulative' = quota_cumulative + r.cost

NoRequest == [status |-> "none", attempts |-> 0, cost |-> 0, waits |-> <<>>,
              given |-> [transients |-> 0, after |-> "none", quota_cost |-> 0]]

(* One call of _make_request on the client. *)
MakeRequest(outcomes, quota_cost) ==
    LET r == MakeRequestResult(outcomes, quota_cost) IN
    /\ RecordCost(r)
    /\ recorded' = IF r.status = "ok" THEN recorded + quota_cost ELSE recorded
    /\ lastRequest' = [status |-> r.status, attempts |-> r.attempts, cost |-> r.cost,
                       waits |-> r.waits, given |-> Given(outcomes, quota_cost)]
    /\ UNCHANGED <<initial_quota, resetCalled>>

(* The same outcome on every attempt of one request. *)
Uniform(o) == [k \in 1..max_retries |-> o]

(* What a lookup gives its caller: it returns a channel or None, or it     *)
(* raises; cost is what its requests added to the counters.                *)
LookupResult(raised, value, cost) == [raised |-> raised, value |-> value, cost |-> cost]

(* YouTubeAPIClient.get_channel_info for a 24-character UC id, lines       *)
(* 184-198. o is the outcome of the attempts of the channels.list request, *)
(* found tells whether the response has items. The except clause of lines  *)
(* 196-198 catches every exception and returns None.                       *)
ChannelById(o, found) ==
    LET r == MakeRequestResult(Uniform(o), 1) IN
    IF r.status = "raised" THEN LookupResult(FALSE, "None", r.cost)
    ELSE IF r.status = "ok" /\ found THEN LookupResult(FALSE, "channel", r.cost)
    ELSE LookupResult(FALSE, "None", r.cost)

(* YouTubeAPIClient.get_channel_by_username, lines 127-167: forUsername    *)
(* (cost 1), forHandle when the name starts with @ (cost 1), search (cost  *)
(* 100) and get_channel_info on the id found. o[i] and found[i] are the    *)
(* outcome and the items of request i. The except clause of lines 165-167  *)
(* catches every exception and returns None.                               *)
get_channel_by_username(handle, o, found) ==
    LET r1 == MakeRequestResult(Uniform(o[1]), 1)
        r2 == MakeRequestResult(Uniform(o[2]), 1)
        r3 == MakeRequestResult(Uniform(o[3]), 100)
        r4 == ChannelById(o[4], found[4])
        c2 == IF handle THEN r2.cost ELSE 0
    IN
    IF r1.status = "raised" THEN LookupResult(FALSE, "None", 0)
    ELSE IF r1.status = "ok" /\ found[1] THEN LookupResult(FALSE, "channel", r1.cost)
    ELSE IF handle /\ r2.status = "raised" THEN LookupResult(FALSE, "None", r1.cost)
    ELSE IF handle /\ r2.status = "ok" /\ found[2]
         THEN LookupResult(FALSE, "channel", r1.cost + r2.cost)
    ELSE IF r3.status = "raised" THEN LookupResult(FALSE, "None", r1.cost + c2)
    ELSE IF r3.status = "ok" /\ found[3]
         THEN LookupResult(r4.raised, r4.value, r1.cost + c2 + r3.cost + r4.cost)
    ELSE LookupResult(FALSE, "None", r1.cost + c2 + r3.cost)

(* YouTubeAPIClient.get_channel_info, lines 179-198: an id that is not a   *)
(* 24-character UC id is resolved by get_channel_by_username.              *)
get_channel_info(is_id, handle, o, found) ==
    IF ~is_id THEN get_channel_by_username(handle, o, found)
    ELSE ChannelById(o[1], found[1])

(* YouTubeAPIClient.reset_quota_counter *)
ResetQuotaCounter ==
    /\ quota_usage' = 0
    /\ quota_cumulative' = 0
    /\ resetCalled' = TRUE
    /\ UNCHANGED <<initial_quota, recorded, lastRequest>>

(* YouTubeAPIClient.get_quota_usage / get_quota_cumulative *)
get_quota_usage == quota_usage
get_quota_cumulative == quota_cumulative

-----------------------------------------------------------------------------
(* ComprehensiveCollector.check_quota_available: the budget gate.          *)
(* TRUE when the gate is open.                                             *)

check_quota_available ==
    LET current_quota == get_quota_usage IN
    ~(current_quota >= (daily_quota - quota_buffer))

-----------------------------------------------------------------------------
(* The source list and the statistics of the collector.                    *)

Sources == 1..NumSources        \* list positions of the sources (1-based)

StartTime(n) == <<"start", n>>  \* datetime.now().isoformat() of process n

(* ComprehensiveCollector.__init__: self.stats *)
InitialStats(n) ==
    [channels_attempted |-> 0, channels_success |-> 0, channels_failed |-> 0,
     videos_collected |-> 0, comments_collected |-> 0, quota_used |-> 0,
     start_time |-> StartTime(n), consecutive_failures |-> 0,
     sources_loaded |-> 0, sources_skipped |-> 0]

-----------------------------------------------------------------------------
(* json.dump / json.load of the checkpoint: integers are written as        *)
(* decimal text and read back from it, strings are written as strings.     *)

RECURSIVE Digits(_)
Digits(n) == IF n < 10 THEN <<n>> ELSE Append(Digits(n \div 10), n % 10)

RECURSIVE ParseDigits(_)
ParseDigits(d) ==
    IF Len(d) = 1 THEN d[1]
    ELSE 10 * ParseDigits(SubSeq(d, 1, Len(d) - 1)) + d[Len(d)]

JsonNumber(n) == [type |-> "number", text |-> Digits(n)]
JsonString(str) == [type |-> "string", text |-> str]
FromJson(j) == IF j.type = "number" THEN ParseDigits(j.text) ELSE j.text

(* A faulty variant: the statistics are written without the failure counters. *)
json_dump_lossy(ck) ==
    [channel_index |-> JsonNumber(ck.channel_index),
     last_source |-> JsonNumber(ck.last_source),
     stats |-> [k \in DOMAIN ck.stats |->
                  IF k = "start_time" THEN JsonString(ck.stats[k])
                  ELSE IF k \in {"channels_failed", "consecutive_failures"}
                       THEN JsonNumber(0)
                       ELSE JsonNumber(ck.stats[k])]]

json_dump(ck) ==
    [channel_index |-> JsonNumber(ck.channel_index),
     last_source |-> JsonNumber(ck.last_source),
     stats |-> [k \in DOMAIN ck.stats |->
                  IF k = "start_time" THEN JsonString(ck.stats[k])
                  ELSE JsonNumber(ck.stats[k])]]

(* The top-level keys of the checkpoint, in the order json.dump writes them *)
CheckpointKeys == <<"channel_index", "last_source", "stats">>

(* The text of a file whose writing was cut short after the first n keys   *)
(* (n = 0: the file is empty); the closing brace is missing.               *)
Truncated(n) == [type |-> "truncated", keys |-> SubSeq(CheckpointKeys, 1, n)]

TruncatedFiles == {Truncated(n) : n \in 0..Len(CheckpointKeys)}

(* json.load raises json.JSONDecodeError on a text that is not a document. *)
JSONDecodeError == [type |-> "JSONDecodeError"]

json_load(f) ==
    IF f \in TruncatedFiles THEN JSONDecodeError
    ELSE [channel_index |-> FromJson(f.channel_index),
          last_source |-> FromJson(f.last_source),
          stats |-> [k \in DOMAIN f.stats |-> FromJson(f.stats[k])]]

NoFile == [type |-> "none"]

(* ComprehensiveCollector.save_checkpoint: the new content of the file.    *)
(* source is the list position of the source (0 for the empty dict); the   *)
(* timestamp field is left out.                                            *)
save_checkpoint(channel_index, source, self_stats) ==
    json_dump([channel_index |-> channel_index, last_source |-> source,
               stats |-> self_stats])

(* ComprehensiveCollector.load_checkpoint: None is NoFile *)
load_checkpoint == IF checkpoint = NoFile THEN NoFile ELSE json_load(checkpoint)

-----------------------------------------------------------------------------
(* Database.start_collection_run / end_collection_run on collection_runs.  *)
(* run_id is the index of the row. Of the columns status and               *)
(* quota_cumulative (DEFAULT 0) are kept; ends counts the                  *)
(* end_collection_run calls made for the row (history).                    *)

start_collection_run ==
    Append(runs, [status |-> "running", ends |-> 0, quota_cumulative |-> 0])

DbStats(status) ==
    [channels_processed |-> stats.channels_attempted,
     quota_used |-> stats.quota_used,
     status |-> status]

end_collection_run(run_id, db_stats) ==
    LET session_quota == db_stats.quota_used
        cumulative_quota == IF "quota_cumulative" \in DOMAIN db_stats
                            THEN db_stats.quota_cumulative ELSE session_quota
    IN [runs EXCEPT ![run_id] = [status |-> db_stats.status, ends |-> @.ends + 1,
                                 quota_cumulative |-> cumulative_quota]]

(* Database.get_last_quota_cumulative, lines 583-594: the quota_cumulative *)
(* of the row with the largest run_id among those whose status is          *)
(* 'completed' or 'running'; 0 without such a row.                         *)
get_last_quota_cumulative ==
    LET rows == {i \in DOMAIN runs : runs[i].status \in {"completed", "running"}} IN
    IF rows = {} THEN 0
    ELSE runs[CHOOSE i \in rows : \A j \in rows : j <= i].quota_cumulative

run_id == Len(runs)

(* The items handed to Database.insert_video and insert_comments_batch. *)
(* channels is the table channels, a set of rows.                        *)
EmptyDb == [videos |-> {}, comments |-> {}, channels |-> {}]

(* No paginated fetch is in progress. *)
NoFetch == [pc |-> "none"]

(* History kept in fetch while the fetches of a source are followed:       *)
(*   gated       check_quota_available returned True and no cost was       *)
(*               recorded since                                            *)
(*   calls       number of remote calls issued                             *)
(*   requests    number of remote calls that returned a response           *)
(*   quotaError  a remote call failed with a quota / rate-limit error      *)
(*   closed      check_quota_available has returned False, at a page or at *)
(*               a video                                                   *)
(* and, of the last page request that raised: failure, the outcome of its  *)
(* attempts, and attempts, their number; comment_errors counts the comment *)
(* fetches of the source that ended with an error. Of the fetch in         *)
(* progress:                                                               *)
(*   pages       the pages requested, in order                             *)
(*   served      the items the responses carried, in order                 *)
(*   lost        a page had items whose details could not be fetched       *)
GateChecked(f, ok) == IF f = NoFetch THEN f ELSE [f EXCEPT !.gated = ok]

GateClosed(f) == IF f = NoFetch THEN f ELSE [f EXCEPT !.gated = FALSE, !.closed = TRUE]

RemoteCalls(f, calls, requests, cost, quota_error) ==
    IF f = NoFetch THEN f
    ELSE [f EXCEPT !.calls = @ + calls,
                   !.requests = @ + requests,
                   !.gated = IF cost > 0 THEN FALSE ELSE @,
                   !.quotaError = @ \/ quota_error]

-----------------------------------------------------------------------------
(* History variables.                                                      *)

(* The channel ids inserted in SpecStore *)
ChannelIds == {"UC_test123", "UC_test456"}

InitHist ==
    [prior |-> 0,             \* costs recorded by the earlier processes
     attempted |-> [s \in Sources |-> 0], \* collect_channel calls started
     processed |-> [s \in Sources |-> 0], \* collect_channel calls returned
     firstCollected |-> 0,    \* idx of the first collect_channel call of this process
     streak |-> 0,            \* collect_channel calls in a row that returned False
     loopExit |-> "none",     \* how the loop of this process ended
     quotaStop |-> 0,         \* idx at the first failed pre-check of this process
     ckptQuotaStop |-> 0,     \* idx of the quota stop that wrote the checkpoint (0: other)
     loopErrors |-> 0,        \* exceptions handled in the loop body, all processes
     loaded |-> NoFile,       \* what load_checkpoint returned to this process
     loadedQuotaStop |-> 0,   \* ckptQuotaStop of the checkpoint loaded
     allResumed |-> TRUE,     \* every process after the first had resume=True
     pausedOnly |-> TRUE,     \* every earlier process ended by interrupt or quota stop
     saved |-> NoFile,        \* arguments and stats of the last save_checkpoint
     previous |-> NoFile,     \* content of the file when that call began (SpecCrash)
     swallowed |-> 0,         \* KeyboardInterrupts caught inside insert_video
     setupError |-> FALSE,    \* the sources file of this process could not be read
     resolution |-> 1,        \* units a channel lookup is charged in SpecScenario
     commentsCall |-> NoFile, \* video, argument and result of the last
                              \* get_video_comments call (SpecComments)
     inserts |-> 0,           \* insert_channel calls made (SpecStore)
     replaced |-> 0,          \* those of them that found a row with the same id
     lastCall |-> NoFile,     \* argument and result of the last of them
     lastInsert |-> [id \in ChannelIds |-> NoFile], \* per channel id, the argument
                              \* of the last of them that returned True
     ended |-> NoFile,        \* the statistics given to the last
                              \* end_collection_run call (SpecRuns)
     lookup |-> NoFile,       \* result of the last get_channel_info call (SpecLookup)
     lookupGiven |-> "none"]  \* the outcome its first request was given

SaveHist(h, channel_index, source, self_stats, quota_stop) ==
    [h EXCEPT !.saved = [channel_index |-> channel_index, last_source |-> source,
                         stats |-> self_stats],
              !.ckptQuotaStop = quota_stop]

-----------------------------------------------------------------------------
(* Construction of a process: ComprehensiveCollector.__init__ builds a     *)
(* YouTubeAPIClient without initial_quota and fresh statistics; main()     *)
(* then calls run() with start_from = 0 and no max_channels.               *)

NewProcess ==
    /\ pc \in {"idle", "exited", "returned"}
    /\ session < MaxSessions
    /\ session' = session + 1
    /\ quota_usage' = 0
    /\ quota_cumulative' = 0
    /\ initial_quota' = 0
    /\ recorded' = 0
    /\ resetCalled' = FALSE
    /\ lastRequest' = NoRequest
    /\ stats' = InitialStats(session + 1)
    /\ start_from' = 0
    /\ idx' = 0
    /\ videos' = 0
    /\ pc' = "start"
    /\ hist' = [hist EXCEPT !.prior = @ + recorded,
                            !.firstCollected = 0, !.streak = 0,
                            !.loopExit = "none", !.quotaStop = 0,
                            !.loaded = NoFile, !.loadedQuotaStop = 0,
                            !.setupError = FALSE,
                            !.pausedOnly = @ /\ (session = 0 \/
                                hist.loopExit \in {"interrupt", "quota"})]
    /\ UNCHANGED <<configVars, storeVars, fetch>>

(* run(), lines 332-347: the quota check before starting. *)
RunStart ==
    /\ pc = "start"
    /\ pc' = IF check_quota_available THEN "resume" ELSE "returned"
    /\ UNCHANGED <<ledgerVars, configVars, session, start_from, idx, stats, videos, storeVars, fetch, hist>>

(* A faulty variant: the statistics are restored with the saved failure streak. *)
RestoreStatsKeepStreak(saved_stats) ==
    [k \in DOMAIN stats |-> IF k \in DOMAIN saved_stats THEN saved_stats[k] ELSE stats[k]]

(* Lines 357-360: self.stats.update(saved_stats), then the streak is reset. *)
RestoreStats(saved_stats) ==
    [[k \in DOMAIN stats |-> IF k \in DOMAIN saved_stats THEN saved_stats[k] ELSE stats[k]]
        EXCEPT !.consecutive_failures = 0]

(* run(), lines 349-362: the resume step; resume is the argument given to *)
(* run() by this process.                                                  *)
ResumeStep ==
    /\ pc = "resume"
    /\ \E resume \in BOOLEAN :
        LET ck == IF resume THEN load_checkpoint ELSE NoFile IN
        IF ck # NoFile
        THEN /\ start_from' = ck.channel_index
             /\ stats' = RestoreStats(ck.stats)
             /\ hist' = [hist EXCEPT !.loaded = ck,
                                     !.loadedQuotaStop = hist.ckptQuotaStop]
        ELSE /\ UNCHANGED <<start_from, stats>>
             /\ hist' = [hist EXCEPT !.allResumed = @ /\ (resume \/ session = 1)]
    /\ pc' = "resumed"
    /\ UNCHANGED <<ledgerVars, configVars, session, idx, videos, storeVars, fetch>>

(* load_sources_from_csv: the length of the list returned. An exception  *)
(* raised while the file is read (it is missing, unreadable, malformed) is *)
(* caught by lines 62-64 and [] is returned.                               *)
load_sources_from_csv(readable) == IF readable THEN NumSources ELSE 0

(* Lines 367, 370-374 and 391: len(sources) after sources[start_from:],    *)
(* len(all_sources) being what line 367 stored in sources_loaded.          *)
channels_to_process ==
    LET all_sources == stats.sources_loaded IN
    IF start_from > 0
    THEN (IF start_from >= all_sources THEN 0 ELSE all_sources - start_from)
    ELSE all_sources

(* run(), lines 364-391: the sources are loaded and sliced, the run record *)
(* is opened.                                                              *)
OpenRun ==
    /\ pc = "resumed"
    /\ \E readable \in BOOLEAN :
        /\ stats' = [stats EXCEPT !.sources_loaded = load_sources_from_csv(readable)]
        /\ hist' = [hist EXCEPT !.setupError = ~readable]
    /\ runs' = start_collection_run
    /\ pc' = "loop"
    /\ UNCHANGED <<ledgerVars, configVars, session, start_from, idx,
                   videos, checkpoint, db, fetch>>

(* Line 394: the position enumerate() gives the next source *)
NextIdx == IF idx = 0 THEN start_from + 1 ELSE idx + 1

(* Line 394: the for statement binds idx and source, or the loop ends. *)
LoopNext ==
    /\ pc = "loop"
    /\ IF NextIdx <= start_from + channels_to_process
       THEN /\ idx' = NextIdx
            /\ pc' = "check"
            /\ hist' = hist
       ELSE /\ pc' = "summary"
            /\ hist' = [hist EXCEPT !.loopExit = "exhausted"]
            /\ UNCHANGED idx
    /\ UNCHANGED <<ledgerVars, configVars, session, start_from, stats, videos, storeVars, fetch>>

(* sources_skipped as lines 405 and 421 compute it *)
SourcesSkipped == channels_to_process - (idx - start_from)

(* A faulty variant: the source the pre-check stopped at counts as attempted. *)
QuotaStopCountsAttempt ==
    /\ pc = "check"
    /\ ~check_quota_available
    /\ stats' = [stats EXCEPT !.sources_skipped = SourcesSkipped,
                              !.channels_attempted = @ + 1]
    /\ checkpoint' = save_checkpoint(idx, idx, stats')
    /\ pc' = "summary"
    /\ hist' = SaveHist([hist EXCEPT !.loopExit = "quota",
                                     !.quotaStop = IF @ = 0 THEN idx ELSE @],
                        idx, idx, stats', idx)
    /\ UNCHANGED <<ledgerVars, configVars, session, start_from, idx, videos, runs, db, fetch>>

(* Lines 396-410: the quota pre-check fails, the checkpoint is saved and   *)
(* the loop is left.                                                       *)
QuotaStop ==
    /\ pc = "check"
    /\ ~check_quota_available
    /\ stats' = [stats EXCEPT !.sources_skipped = SourcesSkipped]
    /\ checkpoint' = save_checkpoint(idx, idx, stats')
    /\ pc' = "summary"
    /\ hist' = SaveHist([hist EXCEPT !.loopExit = "quota",
                                     !.quotaStop = IF @ = 0 THEN idx ELSE @],
                        idx, idx, stats', idx)
    /\ UNCHANGED <<ledgerVars, configVars, session, start_from, idx, videos, runs, db, fetch>>

(* Lines 434-442: the handler of an exception raised in the loop body.     *)
LoopErrorHandler(self_stats) ==
    [self_stats EXCEPT !.channels_failed = @ + 1, !.consecutive_failures = @ + 1]

(* Lines 396-407 and 434-442: the pre-check fails and save_checkpoint      *)
(* raises (the file cannot be opened); the handler counts a failure and    *)
(* the loop goes on with the next source.                                  *)
QuotaStopError ==
    /\ pc = "check"
    /\ ~check_quota_available
    /\ stats' = LoopErrorHandler([stats EXCEPT !.sources_skipped = SourcesSkipped])
    /\ pc' = "loop"
    /\ hist' = [hist EXCEPT !.quotaStop = IF @ = 0 THEN idx ELSE @,
                            !.loopErrors = @ + 1]
    /\ UNCHANGED <<ledgerVars, configVars, session, start_from, idx, videos, storeVars, fetch>>

(* collect_all_videos, lines 109-110, and collect_all_comments, lines      *)
(* 170-171: the locals of the fetches of a source, before the first one.   *)
VideosEntry ==
    [pc |-> "v_lookup", videos |-> <<>>, page_count |-> 0, next_page_token |-> 0,
     vid_idx |-> 0, comments |-> <<>>, video_comments |-> 0, exit |-> "none",
     failure |-> "none", attempts |-> 0, comment_errors |-> 0,
     gated |-> FALSE, calls |-> 0, requests |-> 0, quotaError |-> FALSE,
     pages |-> <<>>, served |-> <<>>, lost |-> FALSE, closed |-> FALSE]

(* collect_channel is entered behind an open gate: the locals are fresh.   *)
EnterChannel(f) ==
    IF f = NoFetch THEN f
    ELSE [VideosEntry EXCEPT !.gated = TRUE, !.calls = f.calls,
                             !.requests = f.requests, !.quotaError = f.quotaError,
                             !.closed = f.closed]

(* A faulty variant: collect_channel is entered without the pre-check. *)
CollectEnterUngated ==
    /\ pc = "check"
    /\ stats' = [stats EXCEPT !.channels_attempted = @ + 1]
    /\ videos' = 0
    /\ pc' = "cc_resolve"
    /\ hist' = [hist EXCEPT !.attempted[idx] = @ + 1,
                            !.firstCollected = IF @ = 0 THEN idx ELSE @]
    /\ fetch' = EnterChannel(fetch)
    /\ UNCHANGED <<ledgerVars, configVars, session, start_from, idx, storeVars>>

(* Lines 412-413 and 246-252: the pre-check passes and collect_channel is  *)
(* entered: the source counts as attempted.                                *)
CollectEnter ==
    /\ pc = "check"
    /\ check_quota_available
    /\ stats' = [stats EXCEPT !.channels_attempted = @ + 1]
    /\ videos' = 0
    /\ pc' = "cc_resolve"
    /\ hist' = [hist EXCEPT !.attempted[idx] = @ + 1,
                            !.firstCollected = IF @ = 0 THEN idx ELSE @]
    /\ fetch' = EnterChannel(fetch)
    /\ UNCHANGED <<ledgerVars, configVars, session, start_from, idx, storeVars>>

(* A faulty variant: a failed source leaves the streak as it is. *)
SourceFailedNoStreak(self_stats) ==
    [self_stats EXCEPT !.channels_failed = @ + 1]

(* collect_channel returns False: lines 259-261, 267-269, 321-323 *)
SourceFailed(self_stats) ==
    [self_stats EXCEPT !.channels_failed = @ + 1, !.consecutive_failures = @ + 1]

(* collect_channel returns True: lines 284-286, 315-317 *)
SourceSucceeded(self_stats) ==
    [self_stats EXCEPT !.channels_success = @ + 1, !.consecutive_failures = 0]

Returned(h, ok) ==
    [h EXCEPT !.processed[idx] = @ + 1,
              !.streak = IF ok THEN 0 ELSE @ + 1]

(* The requests of one get_channel_info call: the charge of the successful *)
(* ones. get_channel_info catches every exception and returns None.        *)
Charge(c) ==
    /\ quota_usage' = quota_usage + c
    /\ quota_cumulative' = quota_cumulative + c
    /\ recorded' = recorded + c
    /\ UNCHANGED <<initial_quota, resetCalled, lastRequest>>

(* Lines 254-276: the channel id is extracted and the channel resolved.    *)
(*   "no_id"    extract_channel_id_from_url returns None                   *)
(*   "none"     get_channel_info returns None (quota_error: after one of   *)
(*              its requests failed with a quota / rate-limit error)       *)
(*   "raise"    an exception is raised after the lookup                    *)
(*   "found"    the channel is resolved and saved                          *)
CollectResolve ==
    /\ pc = "cc_resolve"
    /\ \E outcome \in {"no_id", "none", "raise", "found"}, c \in 0..MaxLookupCost,
          quota_error \in BOOLEAN :
        /\ outcome = "no_id" => c = 0
        /\ outcome \in {"raise", "found"} => c >= 1
        /\ quota_error => outcome = "none"
        /\ Charge(c)
        /\ fetch' = RemoteCalls(fetch, IF outcome = "no_id" THEN 0 ELSE 1,
                                IF c > 0 THEN 1 ELSE 0, c, quota_error)
        /\ IF outcome = "found"
           THEN /\ pc' = "cc_videos"
                /\ UNCHANGED <<stats, hist>>
           ELSE /\ pc' = "post"
                /\ stats' = SourceFailed(stats)
                /\ hist' = Returned(hist, FALSE)
    /\ UNCHANGED <<configVars, session, start_from, idx,
                   videos, storeVars>>

(* collect_all_videos as collect_channel sees it: the channel is looked up *)
(* again (c = 1 when that request succeeds), then every page is preceded   *)
(* by the budget gate; a page is charged through get_video_details only    *)
(* (the playlistItems request is made on the raw service object and is not *)
(* recorded). n pages of one video each were fetched.                      *)
VideoFetches ==
    {f \in [n : 0..MaxVideos, c : 0..1] :
        /\ f.n > 0 => f.c = 1
        /\ f.n > 0 => quota_usage + f.c + (f.n - 1) < daily_quota - quota_buffer}

(* Lines 278-286: the videos are collected; a channel without videos is a  *)
(* success.                                                                *)
CollectVideos ==
    /\ pc = "cc_videos"
    /\ \E f \in VideoFetches :
        /\ Charge(f.c + f.n)
        /\ videos' = f.n
        /\ IF f.n = 0
           THEN /\ stats' = SourceSucceeded(stats)
                /\ pc' = "post"
                /\ hist' = Returned(hist, TRUE)
           ELSE /\ stats' = [stats EXCEPT !.videos_collected = @ + f.n]
                /\ pc' = "cc_comments"
                /\ hist' = hist
    /\ UNCHANGED <<configVars, session, start_from, idx, storeVars, fetch>>

(* Lines 288-317: the comments of the videos are collected, the gate being *)
(* checked before each video; the commentThreads requests are made on the  *)
(* raw service object and are not recorded. n comments were collected.     *)
CollectComments ==
    /\ pc = "cc_comments"
    /\ \E n \in 0..videos :
        /\ n > 0 => check_quota_available
        /\ stats' = SourceSucceeded([stats EXCEPT !.comments_collected = @ + n,
                                                  !.quota_used = get_quota_usage])
    /\ pc' = "post"
    /\ hist' = Returned(hist, TRUE)
    /\ UNCHANGED <<ledgerVars, configVars, session, start_from, idx, videos, storeVars, fetch>>

(* A faulty variant: the streak stops the loop one failure late. *)
StreakReachedLate == stats.consecutive_failures > max_failures

(* Line 417 *)
StreakReached == stats.consecutive_failures >= max_failures

(* A faulty variant: the checkpoint is written one source early. *)
CheckpointDueEarly == (stats.channels_attempted + 1) % checkpoint_interval = 0

(* Line 426 *)
CheckpointDue == stats.channels_attempted % checkpoint_interval = 0

(* Lines 415-432: after collect_channel the streak is checked, the         *)
(* periodic checkpoint is written and the loop sleeps.                     *)
PostCollect ==
    /\ pc = "post"
    /\ IF StreakReached
       THEN /\ stats' = [stats EXCEPT !.sources_skipped = SourcesSkipped]
            /\ pc' = "summary"
            /\ hist' = [hist EXCEPT !.loopExit = "streak"]
            /\ UNCHANGED checkpoint
       ELSE /\ pc' = "loop"
            /\ stats' = stats
            /\ IF CheckpointDue
               THEN /\ checkpoint' = save_checkpoint(idx, idx, stats)
                    /\ hist' = SaveHist(hist, idx, idx, stats, 0)
               ELSE UNCHANGED <<checkpoint, hist>>
    /\ UNCHANGED <<ledgerVars, configVars, session, start_from, idx, videos, runs, db, fetch>>

(* Lines 424-427 and 434-442: the periodic save_checkpoint raises. *)
PostCollectError ==
    /\ pc = "post"
    /\ ~StreakReached
    /\ CheckpointDue
    /\ stats' = LoopErrorHandler(stats)
    /\ pc' = "loop"
    /\ hist' = [hist EXCEPT !.loopErrors = @ + 1]
    /\ UNCHANGED <<ledgerVars, configVars, session, start_from, idx, videos,
                   storeVars, fetch>>

(* Lines 444-474: the summary is printed and the run is ended with status  *)
(* 'completed'.                                                            *)
TerminalWrite ==
    /\ pc = "summary"
    /\ runs' = end_collection_run(run_id, DbStats("completed"))
    /\ pc' = "cleanup"
    /\ UNCHANGED <<ledgerVars, configVars, session, start_from, idx, stats, videos, checkpoint, db, fetch, hist>>

(* Lines 476-480: the checkpoint is deleted when nothing was skipped. *)
Cleanup ==
    /\ pc = "cleanup"
    /\ checkpoint' = IF checkpoint # NoFile /\ stats.sources_skipped = 0
                     THEN NoFile ELSE checkpoint
    /\ pc' = "finally"
    /\ UNCHANGED <<ledgerVars, configVars, session, start_from, idx, stats, videos, runs, db, fetch, hist>>

(* The positions of run() inside the try statement of lines 393-480. *)
InTry == {"loop", "check", "cc_resolve", "cc_videos", "cc_comments", "post",
          "summary", "cleanup"}

(* The fetches of the source, if followed, are abandoned by the exception. *)
Interrupted(f) == IF f = NoFetch THEN f ELSE [f EXCEPT !.pc = "interrupted"]

(* Lines 482-498: KeyboardInterrupt is delivered (once per process) while  *)
(* the try statement runs.                                                 *)
Interrupt ==
    /\ pc \in InTry
    /\ LET i == IF idx # 0 THEN idx ELSE start_from IN
        /\ checkpoint' = save_checkpoint(i, idx, stats)
        /\ hist' = SaveHist([hist EXCEPT !.loopExit = "interrupt"], i, idx, stats, 0)
    /\ runs' = end_collection_run(run_id, DbStats("interrupted"))
    /\ pc' = "finally"
    /\ fetch' = Interrupted(fetch)
    /\ UNCHANGED <<ledgerVars, configVars, session, start_from, idx, stats, videos,
                   db>>

(* Lines 500-515: an exception raised in the try statement outside the     *)
(* loop body (the summary of lines 444-460, the cleanup of lines 476-480). *)
FatalError ==
    /\ pc \in {"summary", "cleanup"}
    /\ runs' = end_collection_run(run_id, DbStats("failed"))
    /\ pc' = "finally"
    /\ hist' = [hist EXCEPT !.loopExit = "error"]
    /\ UNCHANGED <<ledgerVars, configVars, session, start_from, idx, stats, videos, checkpoint, db, fetch>>

(* Lines 517-518: the database is closed and run() returns. *)
Finally ==
    /\ pc = "finally"
    /\ pc' = "exited"
    /\ UNCHANGED <<ledgerVars, configVars, session, start_from, idx, stats, videos, storeVars, fetch, hist>>

-----------------------------------------------------------------------------
(* Spec: a campaign of at most MaxSessions processes over one source list. *)

IdleProcess ==
    /\ pc = "idle"
    /\ session = 0
    /\ start_from = 0
    /\ idx = 0
    /\ stats = InitialStats(0)
    /\ videos = 0
    /\ checkpoint = NoFile
    /\ runs = <<>>
    /\ db = EmptyDb
    /\ fetch = NoFetch
    /\ hist = InitHist

Init ==
    /\ quota_usage = 0
    /\ quota_cumulative = 0
    /\ initial_quota = 0
    /\ recorded = 0
    /\ resetCalled = FALSE
    /\ lastRequest = NoRequest
    /\ \E q \in QuotaLimits : daily_quota = q[1] /\ quota_buffer = q[2]
    /\ max_failures \in FailureLimits
    /\ checkpoint_interval \in Intervals
    /\ max_retries = DefaultRetries
    /\ IdleProcess

Next ==
    \/ NewProcess
    \/ RunStart
    \/ ResumeStep
    \/ OpenRun
    \/ LoopNext
    \/ QuotaStop
    \/ QuotaStopError
    \/ CollectEnter
    \/ CollectResolve
    \/ CollectVideos
    \/ CollectComments
    \/ PostCollect
    \/ PostCollectError
    \/ TerminalWrite
    \/ Cleanup
    \/ Interrupt
    \/ FatalError
    \/ Finally

Spec == Init /\ [][Next]_vars

-----------------------------------------------------------------------------
(* SpecLedger: a client constructed with any seed, under any limits, on    *)
(* which requests are made and the counters may be reset.                  *)

InitLedger ==
    /\ initial_quota \in 0..MaxSeed
    /\ quota_usage = 0
    /\ quota_cumulative = initial_quota
    /\ recorded = 0
    /\ resetCalled = FALSE
    /\ lastRequest = NoRequest
    /\ daily_quota \in 0..MaxDaily
    /\ quota_buffer \in 0..MaxBuffer
    /\ max_failures = 1
    /\ checkpoint_interval = 1
    /\ max_retries \in 1..MaxRetries
    /\ IdleProcess

LedgerRequest ==
    \E outcomes \in [1..max_retries -> Outcomes], c \in 1..MaxCost :
        /\ quota_usage + c <= MaxQuota
        /\ MakeRequest(outcomes, c)
        /\ UNCHANGED <<configVars, procVars, storeVars, fetch, hist>>

LedgerReset ==
    /\ ~resetCalled
    /\ ResetQuotaCounter
    /\ UNCHANGED <<configVars, procVars, storeVars, fetch, hist>>

NextLedger == LedgerRequest \/ LedgerReset

SpecLedger == InitLedger /\ [][NextLedger]_vars

-----------------------------------------------------------------------------
(* SpecLookup: get_channel_info is called on a client, for ids and for     *)
(* names, under every outcome of its requests.                             *)

InitLookup ==
    /\ InitLedger
    /\ initial_quota = 0
    /\ daily_quota = 0
    /\ quota_buffer = 0

LedgerLookup ==
    /\ quota_usage <= MaxCost
    /\ \E is_id \in BOOLEAN, handle \in BOOLEAN,
          o \in [1..4 -> Outcomes], found \in [1..4 -> BOOLEAN] :
        LET r == get_channel_info(is_id, handle, o, found) IN
        /\ Charge(r.cost)
        /\ hist' = [hist EXCEPT !.lookup = r, !.lookupGiven = o[1]]
    /\ UNCHANGED <<configVars, procVars, storeVars, fetch>>

NextLookup == LedgerLookup

SpecLookup == InitLookup /\ [][NextLookup]_vars

-----------------------------------------------------------------------------
(* SpecCheckpoint: save_checkpoint followed by load_checkpoint, for        *)
(* statistics and indexes drawn from sample values.                        *)

Samples == {0, 7, 10, 45, 2500}

InitCheckpoint ==
    /\ InitLedger
    /\ max_retries = DefaultRetries
    /\ initial_quota = 0
    /\ daily_quota = 0
    /\ quota_buffer = 0

CheckpointInputs ==
    /\ pc = "idle"
    /\ \E a \in Samples, b \in Samples, c \in Samples, i \in Samples :
        /\ stats' = [InitialStats(1) EXCEPT !.channels_attempted = a + b,
                                           !.channels_success = a,
                                           !.channels_failed = b,
                                           !.consecutive_failures = b,
                                           !.videos_collected = c,
                                           !.comments_collected = 10 * c,
                                           !.quota_used = c,
                                           !.sources_loaded = a + b + c,
                                           !.sources_skipped = c]
        /\ idx' = i
    /\ pc' = "resumed"
    /\ UNCHANGED <<ledgerVars, configVars, session, start_from, videos,
                   storeVars, fetch, hist>>

CheckpointSave ==
    /\ pc = "resumed"
    /\ checkpoint' = save_checkpoint(idx, idx, stats)
    /\ hist' = SaveHist(hist, idx, idx, stats, 0)
    /\ pc' = "exited"
    /\ UNCHANGED <<ledgerVars, configVars, session, start_from, idx, stats,
                   videos, runs, db, fetch>>

CheckpointLoad ==
    /\ pc = "exited"
    /\ hist' = [hist EXCEPT !.loaded = load_checkpoint]
    /\ pc' = "returned"
    /\ UNCHANGED <<ledgerVars, configVars, session, start_from, idx, stats,
                   videos, storeVars, fetch>>

NextCheckpoint == CheckpointInputs \/ CheckpointSave \/ CheckpointLoad

SpecCheckpoint == InitCheckpoint /\ [][NextCheckpoint]_vars

-----------------------------------------------------------------------------
(* SpecCrash: save_checkpoint followed statement by statement, in a process *)
(* that may be killed at any point of it; a later process loads the file.  *)

(* Lines 424-427: the periodic save_checkpoint(idx, source) call of a      *)
(* first process that has attempted the sources up to idx, all resolved.   *)
CrashInputs ==
    /\ pc \in {"idle", "saved"}
    /\ \E i \in Sources :
        /\ idx' = i
        /\ stats' = [InitialStats(1) EXCEPT !.channels_attempted = i,
                                           !.channels_success = i,
                                           !.sources_loaded = NumSources]
    /\ pc' = "resumed"
    /\ UNCHANGED <<ledgerVars, configVars, session, start_from, videos,
                   storeVars, fetch, hist>>

(* Lines 94-95: open(checkpoint_file, 'w') creates the file or truncates   *)
(* it to length zero.                                                      *)
SaveOpen ==
    /\ pc = "resumed"
    /\ checkpoint' = Truncated(0)
    /\ hist' = [SaveHist(hist, idx, idx, stats, 0) EXCEPT !.previous = checkpoint]
    /\ pc' = "dumping"
    /\ UNCHANGED <<ledgerVars, configVars, session, start_from, idx, stats,
                   videos, runs, db, fetch>>

(* Line 96: json.dump writes the document piece by piece into the open     *)
(* file; after the last piece the with statement closes the file.          *)
SaveDump ==
    /\ pc = "dumping"
    /\ IF Len(checkpoint.keys) < Len(CheckpointKeys)
       THEN /\ checkpoint' = Truncated(Len(checkpoint.keys) + 1)
            /\ pc' = pc
       ELSE /\ checkpoint' = save_checkpoint(idx, idx, stats)
            /\ pc' = "saved"
    /\ UNCHANGED <<ledgerVars, configVars, session, start_from, idx, stats,
                   videos, runs, db, fetch, hist>>

(* The process is killed (or the machine stops) while save_checkpoint runs *)
(* or after it: the file stays as it is.                                   *)
Crash ==
    /\ pc \in {"dumping", "saved"}
    /\ pc' = "exited"
    /\ UNCHANGED <<ledgerVars, configVars, session, start_from, idx, stats,
                   videos, storeVars, fetch, hist>>

NextCrash == CrashInputs \/ SaveOpen \/ SaveDump \/ Crash \/ CheckpointLoad

SpecCrash == InitCheckpoint /\ [][NextCrash]_vars

-----------------------------------------------------------------------------
(* SpecFetch: the first process of a campaign with the paginated fetches   *)
(* of each source followed in detail, from the pre-check of the source     *)
(* (line 397) to the return of collect_channel.                            *)
(* An item is named by the page it came from: video p is the video of page *)
(* p of the uploads playlist, comment <<v, p>> the comment of page p of    *)
(* the comment threads of video v. A page token is the number of the pages *)
(* already fetched, 0 for None.                                            *)

SeqToSet(s) == {s[i] : i \in DOMAIN s}

(* Database.insert_video for each video of detailed (lines 148-150) *)
insert_video(d, detailed) == [d EXCEPT !.videos = @ \cup SeqToSet(detailed)]

(* Database.insert_comments_batch (line 237) *)
insert_comments_batch(d, comments) == [d EXCEPT !.comments = @ \cup SeqToSet(comments)]

(* Lines 137 and 191: request.execute() on the service object, outside     *)
(* _make_request: one attempt, whose error is raised, and no cost.         *)
Execute(outcomes) ==
    [status |-> IF outcomes[1] = "ok" THEN "ok" ELSE "raised",
     attempts |-> 1, cost |-> 0, waits |-> <<>>]

(* YouTubeAPIClient.get_video_details for the ids of one page (one batch): *)
(* the videos.list request is charged 1; an exception is caught and the    *)
(* videos so far, none, are returned.                                      *)
get_video_details(video_ids, o) ==
    LET r == MakeRequestResult(Uniform(o), 1) IN
    [detailed |-> IF r.status = "ok" THEN video_ids ELSE <<>>, cost |-> r.cost]

(* Lines 112-119: the channel is looked up for its uploads playlist;       *)
(* without channel info the fetch returns [].                              *)
VideosLookup ==
    /\ pc = "cc_videos"
    /\ fetch.pc = "v_lookup"
    /\ \E o \in Outcomes, found \in BOOLEAN :
        LET channel_info == ChannelById(o, found)
            f == RemoteCalls(fetch, 1, IF channel_info.cost > 0 THEN 1 ELSE 0,
                             channel_info.cost, o = "quota")
        IN
        /\ Charge(channel_info.cost)
        /\ fetch' = IF channel_info.value = "channel"
                    THEN [f EXCEPT !.pc = "v_gate"]
                    ELSE [f EXCEPT !.pc = "v_done", !.exit = "nochannel"]
    /\ UNCHANGED <<configVars, procVars, storeVars, hist>>

(* Lines 121-126: the budget gate before each page of videos. *)
VideosGate ==
    /\ fetch.pc = "v_gate"
    /\ fetch' = IF check_quota_available
                THEN [GateChecked(fetch, TRUE) EXCEPT !.pc = "v_page"]
                ELSE [GateClosed(fetch) EXCEPT !.pc = "v_done", !.exit = "quota"]
    /\ UNCHANGED <<ledgerVars, configVars, procVars, storeVars, hist>>

(* A faulty variant: the pageToken is left out of the request. *)
PageRequestedFirst(next_page_token) == 1

(* Lines 134-137 and 188-191: the page the remote side returns for the     *)
(* request, which carries pageToken when next_page_token is set.           *)
PageRequested(next_page_token) == next_page_token + 1

(* Lines 128-159 and 164-166: one page of the uploads playlist.            *)
(*   o      outcome of the attempts of the playlistItems request; when it  *)
(*          raises, the videos so far are returned                         *)
(*   items  the page has items                                             *)
(*   d      outcome of the attempts of the videos.list request of          *)
(*          get_video_details, made when the page has items; its videos    *)
(*          are handed to insert_video                                     *)
(*   more   the response carries a nextPageToken                           *)
VideosPageWith(o, items, d, more) ==
        LET page == PageRequested(fetch.next_page_token)
            response == Execute(Uniform(o))
            details == IF items THEN get_video_details(<<page>>, d)
                       ELSE [detailed |-> <<>>, cost |-> 0]
        IN
        /\ IF response.status = "raised"
           THEN /\ fetch' = [RemoteCalls(fetch, 1, 0, 0, o = "quota")
                               EXCEPT !.pc = "v_done", !.exit = "error",
                                      !.failure = o, !.attempts = response.attempts,
                                      !.pages = Append(@, page)]
                /\ db' = db
                /\ Charge(0)
           ELSE /\ fetch' = [RemoteCalls(fetch, IF items THEN 2 ELSE 1,
                                         IF details.cost > 0 THEN 2 ELSE 1,
                                         details.cost, items /\ d = "quota")
                               EXCEPT !.videos = @ \o details.detailed,
                                      !.pages = Append(@, page),
                                      !.served = IF items THEN Append(@, page) ELSE @,
                                      !.lost = @ \/ (items /\ details.detailed = <<>>),
                                      !.page_count = @ + 1,
                                      !.next_page_token = IF more THEN page ELSE 0,
                                      !.pc = IF more THEN "v_gate" ELSE "v_done",
                                      !.exit = IF more THEN @ ELSE "complete"]
                /\ db' = insert_video(db, details.detailed)
                /\ Charge(details.cost)

(* The listings of SpecFetch have at most MaxPages pages. *)
LastPage(more) == more => PageRequested(fetch.next_page_token) < MaxPages

VideosPage ==
    /\ fetch.pc = "v_page"
    /\ \E o \in Outcomes, items \in BOOLEAN, d \in Outcomes, more \in BOOLEAN :
        /\ LastPage(more)
        /\ VideosPageWith(o, items, d, more)
    /\ UNCHANGED <<configVars, procVars, checkpoint, runs, hist>>

(* collect_all_comments, lines 170-171: the locals at entry *)
CommentsEntry(f) ==
    [f EXCEPT !.pc = "c_gate", !.comments = <<>>, !.next_page_token = 0,
              !.exit = "none", !.failure = "none", !.attempts = 0,
              !.pages = <<>>, !.served = <<>>, !.lost = FALSE]

(* collect_channel, lines 294-297 and 308-317: the loop over the videos is *)
(* over, by its end or by the gate of line 294 returning False.            *)
FinishChannel ==
    /\ stats' = SourceSucceeded([stats EXCEPT !.comments_collected = @ + fetch.video_comments,
                                              !.quota_used = get_quota_usage])
    /\ fetch' = [(IF fetch.vid_idx < Len(fetch.videos) THEN GateClosed(fetch) ELSE fetch)
                    EXCEPT !.pc = "done"]
    /\ hist' = Returned(hist, TRUE)
    /\ pc' = "post"

(* collect_channel, lines 279-297: collect_all_videos has returned; a      *)
(* channel without videos is a success, else the loop over the videos      *)
(* starts with the gate before the first video.                            *)
AfterVideos ==
    /\ fetch.pc = "v_done"
    /\ videos' = Len(fetch.videos)
    /\ IF fetch.videos = <<>>
       THEN /\ stats' = SourceSucceeded(stats)
            /\ fetch' = [fetch EXCEPT !.pc = "done"]
            /\ hist' = Returned(hist, TRUE)
            /\ pc' = "post"
       ELSE /\ stats' = [stats EXCEPT !.videos_collected = @ + Len(fetch.videos)]
            /\ fetch' = [fetch EXCEPT !.pc = "video", !.vid_idx = 0]
            /\ hist' = hist
            /\ pc' = pc
    /\ UNCHANGED <<ledgerVars, configVars, session, start_from, idx, storeVars>>

(* A faulty variant: an error of a comment fetch ends the loop over the videos. *)
VideoLoopStopsOnError ==
    /\ fetch.pc = "video"
    /\ IF fetch.vid_idx < Len(fetch.videos) /\ check_quota_available
          /\ fetch.exit \notin {"disabled", "error"}
       THEN /\ fetch' = CommentsEntry([GateChecked(fetch, TRUE) EXCEPT !.vid_idx = @ + 1])
            /\ UNCHANGED <<stats, pc, hist>>
       ELSE FinishChannel
    /\ UNCHANGED <<ledgerVars, configVars, session, start_from, idx, videos,
                   storeVars>>

(* collect_channel, lines 292-299: the next video, behind the budget gate; *)
(* after the last one, or with the gate closed, lines 308-317.             *)
VideoLoop ==
    /\ fetch.pc = "video"
    /\ IF fetch.vid_idx < Len(fetch.videos) /\ check_quota_available
       THEN /\ fetch' = CommentsEntry([GateChecked(fetch, TRUE) EXCEPT !.vid_idx = @ + 1])
            /\ UNCHANGED <<stats, pc, hist>>
       ELSE FinishChannel
    /\ UNCHANGED <<ledgerVars, configVars, session, start_from, idx, videos,
                   storeVars>>

(* Lines 235-239: after the loop the comments are saved in one batch. *)
SaveAllComments(d, comments) ==
    IF comments # <<>> THEN insert_comments_batch(d, comments) ELSE d

(* Lines 174-179 and 235-239: the budget gate before each page of          *)
(* comments; closed, the loop is left and the comments so far are saved.   *)
CommentsGate ==
    /\ fetch.pc = "c_gate"
    /\ IF check_quota_available
       THEN /\ fetch' = [GateChecked(fetch, TRUE) EXCEPT !.pc = "c_page"]
            /\ db' = db
       ELSE /\ fetch' = [GateClosed(fetch) EXCEPT !.pc = "c_done", !.exit = "quota"]
            /\ db' = SaveAllComments(db, fetch.comments)
    /\ UNCHANGED <<ledgerVars, configVars, procVars, checkpoint, runs, hist>>

(* Lines 181-244: one page of the comment threads of the video.            *)
(*   o         outcome of the attempts of the commentThreads request       *)
(*   disabled  the text of the error raised holds commentsDisabled or      *)
(*             forbidden: [] is returned; else the comments so far are     *)
(*   items     the page has items: its comment is appended to comments     *)
(*   more      the response carries a nextPageToken                        *)
(* No cost is recorded. Only after the last page are the comments handed   *)
(* to insert_comments_batch.                                               *)
CommentsPageWith(o, disabled, items, more) ==
        LET page == PageRequested(fetch.next_page_token)
            video == fetch.videos[fetch.vid_idx]
            served == IF items THEN Append(fetch.served, <<video, page>>)
                      ELSE fetch.served
            response == Execute(Uniform(o))
            comments == IF items THEN Append(fetch.comments, <<video, page>>)
                        ELSE fetch.comments
        IN
        /\ IF response.status = "raised"
           THEN /\ fetch' = [RemoteCalls(fetch, 1, 0, 0, o = "quota")
                               EXCEPT !.pc = "c_done",
                                      !.exit = IF disabled THEN "disabled" ELSE "error",
                                      !.failure = o, !.attempts = response.attempts,
                                      !.comment_errors = @ + 1,
                                      !.pages = Append(@, page)]
                /\ db' = db
           ELSE IF more
                THEN /\ fetch' = [RemoteCalls(fetch, 1, 1, 0, FALSE)
                                    EXCEPT !.comments = comments,
                                           !.pages = Append(@, page),
                                           !.served = served,
                                           !.next_page_token = page,
                                           !.pc = "c_gate"]
                     /\ db' = db
                ELSE /\ fetch' = [RemoteCalls(fetch, 1, 1, 0, FALSE)
                                    EXCEPT !.comments = comments,
                                           !.pages = Append(@, page),
                                           !.served = served,
                                           !.next_page_token = 0,
                                           !.pc = "c_done", !.exit = "complete"]
                     /\ db' = SaveAllComments(db, comments)

CommentsPage ==
    /\ fetch.pc = "c_page"
    /\ \E o \in Outcomes, disabled \in BOOLEAN, items \in BOOLEAN, more \in BOOLEAN :
        /\ LastPage(more)
        /\ CommentsPageWith(o, disabled, items, more)
    /\ UNCHANGED <<ledgerVars, configVars, procVars, checkpoint, runs, hist>>

(* What collect_all_comments returns (lines 239, 243, 244) *)
CommentsReturned == IF fetch.exit = "disabled" THEN <<>> ELSE fetch.comments

(* collect_channel, lines 299-306: collect_all_comments has returned. *)
AfterComments ==
    /\ fetch.pc = "c_done"
    /\ fetch' = [fetch EXCEPT !.video_comments = @ + Len(CommentsReturned),
                              !.pc = "video"]
    /\ UNCHANGED <<ledgerVars, configVars, procVars, storeVars, hist>>

(* Limits tried in SpecFetch: <<daily_quota, quota_buffer>> *)
FetchLimits == {<<4, 1>>, <<6, 1>>}

(* The first process has opened its run record and the for statement has   *)
(* bound the first source.                                                 *)
FirstSourceBound(limits) ==
    /\ quota_usage = 0
    /\ quota_cumulative = 0
    /\ initial_quota = 0
    /\ recorded = 0
    /\ resetCalled = FALSE
    /\ lastRequest = NoRequest
    /\ \E q \in limits : daily_quota = q[1] /\ quota_buffer = q[2]
    /\ max_failures = 2
    /\ checkpoint_interval = 2
    /\ max_retries = DefaultRetries
    /\ pc = "check"
    /\ session = 1
    /\ start_from = 0
    /\ idx = 1
    /\ stats = [InitialStats(1) EXCEPT !.sources_loaded = NumSources]
    /\ videos = 0
    /\ checkpoint = NoFile
    /\ runs = <<[status |-> "running", ends |-> 0, quota_cumulative |-> 0]>>
    /\ db = EmptyDb
    /\ fetch = VideosEntry
    /\ hist = InitHist

InitFetch == FirstSourceBound(FetchLimits)

NextFetch ==
    \/ QuotaStop
    \/ CollectEnter
    \/ CollectResolve
    \/ VideosLookup
    \/ VideosGate
    \/ VideosPage
    \/ AfterVideos
    \/ VideoLoop
    \/ CommentsGate
    \/ CommentsPage
    \/ AfterComments
    \/ PostCollect
    \/ LoopNext

SpecFetch == InitFetch /\ [][NextFetch]_vars

(* The process keeps running: a step that can be taken is taken. *)
SpecFetchLive == SpecFetch /\ WF_vars(NextFetch)

-----------------------------------------------------------------------------
(* SpecStore: a sequence of Database.insert_channel calls on one database. *)
(* Of a channel resource the id, snippet.title and the text of             *)
(* statistics.subscriberCount (its digits; <<>>: absent) are kept; of a    *)
(* row the columns channel_id, channel_title, subscriber_count and         *)
(* last_updated_at.                                                        *)

NULL == -1    \* the value of a column that holds no number

ChannelData ==
    [id : ChannelIds,
     title : {"Original Title", "Updated Title"},
     subscriberCount : {<<>>, Digits(0), Digits(20000)}]

(* A faulty variant: INSERT OR IGNORE, the row already stored is kept. *)
insert_channel_ignore(d, channel_data, ok, now) ==
    IF ~ok \/ \E r \in d.channels : r.channel_id = channel_data.id THEN d
    ELSE [d EXCEPT !.channels = @ \cup
            {[channel_id |-> channel_data.id,
              channel_title |-> channel_data.title,
              subscriber_count |-> IF channel_data.subscriberCount = <<>> THEN NULL
                                   ELSE ParseDigits(channel_data.subscriberCount),
              last_updated_at |-> now]}]

(* Database.insert_channel, lines 213-253. INSERT OR REPLACE deletes the   *)
(* row that holds the same channel_id (the primary key) and inserts the    *)
(* new one; subscriber_count is int() of the text, NULL without it;        *)
(* last_updated_at is the time of the call. ok is FALSE when execute or    *)
(* commit raises: the transaction is rolled back and False is returned.    *)
insert_channel(d, channel_data, ok, now) ==
    IF ~ok THEN d
    ELSE [d EXCEPT !.channels =
            {r \in @ : r.channel_id # channel_data.id} \cup
            {[channel_id |-> channel_data.id,
              channel_title |-> channel_data.title,
              subscriber_count |-> IF channel_data.subscriberCount = <<>> THEN NULL
                                   ELSE ParseDigits(channel_data.subscriberCount),
              last_updated_at |-> now]}]

InitStore == InitCheckpoint

StoreInsert ==
    /\ hist.inserts < MaxInserts
    /\ \E channel_data \in ChannelData, ok \in BOOLEAN :
        /\ db' = insert_channel(db, channel_data, ok, hist.inserts + 1)
        /\ hist' = [hist EXCEPT
              !.inserts = @ + 1,
              !.replaced = IF ok /\ \E r \in db.channels : r.channel_id = channel_data.id
                           THEN @ + 1 ELSE @,
              !.lastCall = [channel_data |-> channel_data, ok |-> ok],
              !.lastInsert[channel_data.id] = IF ok THEN channel_data ELSE @]
    /\ UNCHANGED <<ledgerVars, configVars, procVars, checkpoint, runs, fetch>>

NextStore == StoreInsert

SpecStore == InitStore /\ [][NextStore]_vars

-----------------------------------------------------------------------------
(* SpecComments: YouTubeAPIClient.get_video_comments called on a client.   *)
(* threads[t] is the number of replies the comment thread t of the video   *)
(* carries; a page holds the next threads of the video, as many as were    *)
(* requested if the video has them. Comment <<t, 0>> is the top-level      *)
(* comment of thread t, <<t, k>> its k-th reply.                           *)

Min(a, b) == IF a < b THEN a ELSE b

(* Lines 344-377: the comments of one thread, the top-level one first. *)
ThreadComments(t, replies) == <<<<t, 0>>>> \o [k \in 1..replies |-> <<t, k>>]

(* Lines 344-377: the comments of the threads pos+1 .. pos+n, in order. *)
RECURSIVE PageComments(_, _, _)
PageComments(threads, pos, n) ==
    IF n = 0 THEN <<>>
    ELSE PageComments(threads, pos, n - 1)
            \o ThreadComments(pos + n, threads[pos + n])

(* Lines 325-396: the loop over the pages. pos threads were fetched, o[p]  *)
(* is the outcome of the attempts of the request for page p. An HttpError  *)
(* 403 leaves the loop (line 387), any other exception is caught at line   *)
(* 394: the comments so far are returned in both cases.                    *)
RECURSIVE CommentsLoop(_, _, _, _, _, _)
CommentsLoop(threads, o, max_results, pos, p, comments) ==
    IF ~(Len(comments) < max_results)
    THEN [returned |-> comments, cost |-> 0]
    ELSE LET maxResults == Min(PageSize, max_results - Len(comments))
             response == MakeRequestResult(Uniform(o[p]), 1)
             n == Min(maxResults, Len(threads) - pos)
             next_page_token == pos + n < Len(threads)
             extended == comments \o PageComments(threads, pos, n)
         IN IF response.status # "ok"
            THEN [returned |-> comments, cost |-> response.cost]
            ELSE IF ~next_page_token
            THEN [returned |-> extended, cost |-> response.cost]
            ELSE LET rest == CommentsLoop(threads, o, max_results, pos + n, p + 1,
                                          extended)
                 IN [rest EXCEPT !.cost = @ + response.cost]

(* YouTubeAPIClient.get_video_comments(video_id, max_results) *)
get_video_comments(threads, o, max_results) ==
    CommentsLoop(threads, o, max_results, 0, 1, <<>>)

Videos == UNION {[1..n -> 0..MaxReplies] : n \in 0..MaxThreads}

LedgerComments ==
    /\ quota_usage <= MaxCost
    /\ \E threads \in Videos, o \in [1..MaxThreads + 1 -> Outcomes],
          max_results \in 0..MaxComments :
        LET r == get_video_comments(threads, o, max_results) IN
        /\ Charge(r.cost)
        /\ hist' = [hist EXCEPT !.commentsCall =
                        [threads |-> threads, max_results |-> max_results,
                         returned |-> r.returned]]
    /\ UNCHANGED <<configVars, procVars, storeVars, fetch>>

NextComments == LedgerComments

SpecComments == InitCheckpoint /\ [][NextComments]_vars

-----------------------------------------------------------------------------
(* SpecScenario: one process over a list of ScenarioSources sources, each  *)
(* of which resolves to a channel without videos; a channel lookup is      *)
(* charged hist.resolution units (1 is what get_channel_info charges for a *)
(* channels.list request).                                                 *)

ScenarioLimits == {20, 50, 100}   \* rate_limiting.daily_quota
ScenarioBuffers == {0, 10}        \* rate_limiting.quota_buffer
ScenarioCosts == {1, 10}          \* units charged for one channel lookup

(* collect_channel, lines 254-276: the id is extracted, get_channel_info   *)
(* returns the channel and the channel is saved.                           *)
ScenarioResolve ==
    /\ pc = "cc_resolve"
    /\ Charge(hist.resolution)
    /\ pc' = "cc_videos"
    /\ UNCHANGED <<configVars, session, start_from, idx, stats, videos,
                   storeVars, fetch, hist>>

(* collect_channel, lines 278-286, and collect_all_videos: the channel is  *)
(* looked up again (line 114); the gate of line 123 is closed or the page  *)
(* of the uploads playlist, which is not charged, has no items: there are  *)
(* no videos and the source is a success.                                  *)
ScenarioVideos ==
    /\ pc = "cc_videos"
    /\ Charge(hist.resolution)
    /\ videos' = 0
    /\ stats' = SourceSucceeded(stats)
    /\ pc' = "post"
    /\ hist' = Returned(hist, TRUE)
    /\ UNCHANGED <<configVars, session, start_from, idx, storeVars, fetch>>

(* The process has loaded the list and opened its run record. *)
InitScenario ==
    /\ quota_usage = 0
    /\ quota_cumulative = 0
    /\ initial_quota = 0
    /\ recorded = 0
    /\ resetCalled = FALSE
    /\ lastRequest = NoRequest
    /\ daily_quota \in ScenarioLimits
    /\ quota_buffer \in ScenarioBuffers
    /\ max_failures = DefaultMaxFailures
    /\ checkpoint_interval = DefaultInterval
    /\ max_retries = DefaultRetries
    /\ pc = "loop"
    /\ session = 1
    /\ start_from = 0
    /\ idx = 0
    /\ stats = [InitialStats(1) EXCEPT !.sources_loaded = ScenarioSources]
    /\ videos = 0
    /\ checkpoint = NoFile
    /\ runs = <<[status |-> "running", ends |-> 0, quota_cumulative |-> 0]>>
    /\ db = EmptyDb
    /\ fetch = NoFetch
    /\ \E u \in ScenarioCosts :
        hist = [InitHist EXCEPT !.attempted = [s \in 1..ScenarioSources |-> 0],
                                !.processed = [s \in 1..ScenarioSources |-> 0],
                                !.resolution = u]

NextScenario ==
    \/ LoopNext
    \/ QuotaStop
    \/ CollectEnter
    \/ ScenarioResolve
    \/ ScenarioVideos
    \/ PostCollect
    \/ TerminalWrite
    \/ Cleanup
    \/ Finally

SpecScenario == InitScenario /\ [][NextScenario]_vars

-----------------------------------------------------------------------------
(* SpecInterrupt: SpecFetch with KeyboardInterrupt delivered at any point  *)
(* of the source loop.                                                     *)

(* Database.insert_video, lines 275-279, called from line 150 for a video  *)
(* of the page: KeyboardInterrupt is delivered while the duration is       *)
(* parsed. The bare except clause of line 278 catches it; the video is     *)
(* inserted without duration_seconds and the page goes on.                 *)
InsertVideoInterrupted ==
    /\ fetch.pc = "v_page"
    /\ hist.swallowed = 0
    /\ \E more \in BOOLEAN : LastPage(more) /\ VideosPageWith("ok", TRUE, "ok", more)
    /\ hist' = [hist EXCEPT !.swallowed = @ + 1]
    /\ UNCHANGED <<configVars, procVars, checkpoint, runs>>

NextInterrupt == NextFetch \/ Interrupt \/ InsertVideoInterrupted

SpecInterrupt == InitFetch /\ [][NextInterrupt]_vars

-----------------------------------------------------------------------------
(* SpecBurst: the fetches of the first source of a process when the remote *)
(* side returns, with every page of every listing, items and a             *)
(* nextPageToken (a page request may still fail), and answers every        *)
(* videos.list request. The pages a fetch requests are followed up to      *)
(* BurstPages.                                                             *)

BurstLimits == {<<5, 1>>}   \* rate_limiting: <<daily_quota, quota_buffer>>

InitBurst == FirstSourceBound(BurstLimits)

BurstVideosPage ==
    /\ fetch.pc = "v_page"
    /\ Len(fetch.pages) < BurstPages
    /\ \E o \in Outcomes :
        VideosPageWith(o, TRUE, "ok", TRUE)
    /\ UNCHANGED <<configVars, procVars, checkpoint, runs, hist>>

BurstCommentsPage ==
    /\ fetch.pc = "c_page"
    /\ Len(fetch.pages) < BurstPages
    /\ \E o \in Outcomes, disabled \in BOOLEAN :
        CommentsPageWith(o, disabled, TRUE, TRUE)
    /\ UNCHANGED <<ledgerVars, configVars, procVars, checkpoint, runs, hist>>

NextBurst ==
    \/ CollectEnter
    \/ CollectResolve
    \/ VideosLookup
    \/ VideosGate
    \/ BurstVideosPage
    \/ AfterVideos
    \/ VideoLoop
    \/ CommentsGate
    \/ BurstCommentsPage
    \/ AfterComments

SpecBurst == InitBurst /\ [][NextBurst]_vars

-----------------------------------------------------------------------------
(* SpecRuns: collection runs are started and ended on one database, each   *)
(* under any terminal status and with any quota values; a process that     *)
(* dies leaves its run 'running'.                                          *)

TerminalStatuses == {"completed", "interrupted", "failed"}

RunsStart ==
    /\ Len(runs) < MaxRuns
    /\ runs' = start_collection_run
    /\ UNCHANGED <<ledgerVars, configVars, procVars, checkpoint, db, fetch, hist>>

(* end_collection_run for the run started last, by the process that        *)
(* started it. given tells whether the statistics carry quota_cumulative.  *)
RunsEnd ==
    /\ runs # <<>>
    /\ runs[run_id].status = "running"
    /\ \E status \in TerminalStatuses, used \in 0..MaxCumulative,
          cumulative \in 1..MaxCumulative, given \in BOOLEAN :
        LET db_stats == IF given
                        THEN [channels_processed |-> 0, quota_used |-> used,
                              quota_cumulative |-> cumulative, status |-> status]
                        ELSE [channels_processed |-> 0, quota_used |-> used,
                              status |-> status]
        IN /\ (~given) => cumulative = 1
           /\ runs' = end_collection_run(run_id, db_stats)
           /\ hist' = [hist EXCEPT !.ended = runs'[run_id]]
    /\ UNCHANGED <<ledgerVars, configVars, procVars, checkpoint, db, fetch>>

NextRuns == RunsStart \/ RunsEnd

SpecRuns == InitCheckpoint /\ [][NextRuns]_vars

-----------------------------------------------------------------------------
(* The claims.                                                             *)

Limit == daily_quota - quota_buffer

(* C1: the budget gate returns false if and only if cumulative_used >=     *)
(* daily_limit - safety_buffer, in every state of a ledger that was seeded *)
(* and on which costs were recorded (no reset).                            *)
C1_GateIffCumulative ==
    ~resetCalled => ((~check_quota_available) <=> (get_quota_cumulative >= Limit))

(* C2: without a reset, quota_cumulative never decreases and equals the    *)
(* seed plus the sum of the recorded costs, and quota_usage equals the sum *)
(* of the recorded costs alone.                                            *)
C2_CumulativeIsSeedPlusCosts ==
    /\ [](~resetCalled => /\ quota_cumulative = initial_quota + recorded
                          /\ quota_usage = recorded)
    /\ [][~resetCalled' => quota_cumulative' >= quota_cumulative]_vars

C2_Witness ==
    /\ ~resetCalled
    /\ initial_quota > 0
    /\ recorded >= 3
    /\ lastRequest.status = "raised"
    /\ lastRequest.attempts = max_retries

(* C3: in a resumed process the gate is closed as soon as the cost         *)
(* recorded by the earlier processes plus the cost recorded by this one    *)
(* reaches daily_limit - safety_buffer.                                    *)
C3_ResumeKeepsBudget ==
    (hist.loaded # NoFile /\ hist.prior + recorded >= Limit)
        => ~check_quota_available

(* C4: when run() has returned after opening its run record, exactly one   *)
(* end_collection_run call was made for it, with a status other than       *)
(* 'running'.                                                              *)
C4_OneTerminalWrite ==
    pc = "exited" => (runs[run_id].ends = 1 /\ runs[run_id].status # "running")

(* C5: a process resumed from the checkpoint of a quota stop before the    *)
(* source at position k passes position k to collect_channel first.        *)
C5_QuotaCheckpointResumesAtStop ==
    (hist.loadedQuotaStop # 0 /\ hist.firstCollected # 0)
        => hist.firstCollected = hist.loadedQuotaStop

(* C6: when every earlier process was paused (interrupt or quota stop) and *)
(* every later one resumed, a loop that exhausts the list leaves every     *)
(* source processed by collect_channel, and channels_attempted counts no   *)
(* source twice (stated for the runs in which no exception was handled in  *)
(* the loop body).                                                         *)
C6_NoLossNoDoubleCount ==
    (/\ pc = "exited" /\ hist.loopExit = "exhausted"
     /\ hist.allResumed /\ hist.pausedOnly /\ hist.loopErrors = 0)
        => /\ \A s \in Sources : hist.processed[s] >= 1
           /\ stats.channels_attempted <= Cardinality({s \in Sources : hist.attempted[s] > 0})

(* C7: after the resume step loaded a checkpoint whose statistics carry a  *)
(* nonzero consecutive_failures, and before the first source is processed, *)
(* the in-memory consecutive_failures is 0.                                *)
C7_ResumeResetsStreak ==
    (/\ hist.loaded # NoFile
     /\ hist.loaded.stats.consecutive_failures > 0
     /\ hist.firstCollected = 0
     /\ pc \in {"resumed", "loop", "check"})
        => stats.consecutive_failures = 0

C7_Witness ==
    /\ pc = "resumed"
    /\ hist.loaded # NoFile
    /\ hist.loaded.stats.consecutive_failures > 0

(* C8: once max_consecutive_failures collect_channel calls in a row have   *)
(* failed, the loop is left: the process is never again at a position from *)
(* which collect_channel is called for a following source.                 *)
C8_StreakHalts ==
    hist.streak >= max_failures
        => pc \notin {"loop", "check", "cc_resolve", "cc_videos", "cc_comments"}

C8_Witness ==
    /\ max_failures = 2
    /\ hist.streak = 2
    /\ hist.loopExit = "streak"
    /\ pc = "exited"
    /\ idx < NumSources
    /\ hist.attempted[idx + 1] = 0

(* C9: save_checkpoint(i, source) with self.stats = S followed by          *)
(* load_checkpoint() returns statistics equal to S and channel_index i.    *)
C9_CheckpointRoundTrip ==
    hist.loaded # NoFile
        => /\ hist.loaded.stats = hist.saved.stats
           /\ hist.loaded.channel_index = hist.saved.channel_index

C9_Witness ==
    /\ hist.loaded # NoFile
    /\ hist.loaded.channel_index = 2500
    /\ hist.loaded.stats.channels_failed = 45
    /\ hist.loaded.stats.comments_collected = 70

(* C10: in both paginated fetches the items of a page are handed to the    *)
(* persistence layer before the next page is requested, so when a later    *)
(* page fails the items of the earlier pages are already persisted.        *)
C10_PagePersistedBeforeNext ==
    /\ (fetch.pc \in {"v_gate", "v_page"} \/ (fetch.pc = "v_done" /\ fetch.exit = "error"))
          => SeqToSet(fetch.videos) \subseteq db.videos
    /\ (fetch.pc \in {"c_gate", "c_page"} \/ (fetch.pc = "c_done" /\ fetch.exit \in {"error", "disabled"}))
          => SeqToSet(fetch.comments) \subseteq db.comments

(* C14: a request that fails with a quota / rate-limit error (403, 429) is *)
(* not retried: request_func was called once for it (once more than the    *)
(* transient failures before it), the error is raised and neither counter  *)
(* changes, for every max_retries >= 1.                                    *)
C14_QuotaErrorNotRetried ==
    /\ [](lastRequest.given.after = "quota"
            => /\ lastRequest.status = "raised"
               /\ lastRequest.attempts = lastRequest.given.transients + 1
               /\ lastRequest.cost = 0)
    /\ [][(lastRequest'.given.after = "quota" /\ resetCalled' = resetCalled)
            => (quota_usage' = quota_usage /\ quota_cumulative' = quota_cumulative)]_vars

C14_Witness ==
    /\ max_retries = MaxRetries
    /\ lastRequest.given.after = "quota"
    /\ lastRequest.given.transients = 0
    /\ lastRequest.attempts = 1
    /\ recorded > 0

(* C16: when the remote side answers the channel lookup with HTTP 403,     *)
(* get_channel_info raises to its caller.                                  *)
C16_LookupRaisesQuotaError ==
    hist.lookupGiven = "quota" => hist.lookup.raised

(* C17: a request that fails k < max_retries times with a transient error  *)
(* and then succeeds returns the response after k + 1 attempts, and its    *)
(* cost is recorded once.                                                  *)
C17_RetryThenSuccess ==
    /\ []((lastRequest.given.after = "ok" /\ lastRequest.given.transients < max_retries)
            => /\ lastRequest.status = "ok"
               /\ lastRequest.attempts = lastRequest.given.transients + 1
               /\ lastRequest.cost = lastRequest.given.quota_cost)
    /\ [][(lastRequest'.given.after = "ok" /\ resetCalled' = resetCalled
            /\ recorded' # recorded)
            => /\ quota_usage' = quota_usage + lastRequest'.given.quota_cost
               /\ quota_cumulative' = quota_cumulative + lastRequest'.given.quota_cost]_vars

C17_Witness ==
    /\ max_retries = 3
    /\ lastRequest.given.transients = 2
    /\ lastRequest.given.after = "ok"
    /\ lastRequest.attempts = 3
    /\ quota_usage = lastRequest.given.quota_cost

C11_GateBeforeEachCost ==
    [][recorded' > recorded => fetch.gated]_vars

(* C12: every remote request that returned a response has increased both   *)
(* counters by its cost (at least one unit each), and no step of a run     *)
(* decreases a counter.                                                    *)
C12_EveryRequestRecorded ==
    /\ [](fetch.requests <= quota_usage /\ fetch.requests <= quota_cumulative)
    /\ [][quota_usage' >= quota_usage /\ quota_cumulative' >= quota_cumulative]_vars

(* C13: when collect_channel ends with a failure it returns to the loop    *)
(* with channels_failed and consecutive_failures one higher, and the loop  *)
(* goes on to the next source unless the streak ceiling is reached (or the *)
(* user interrupts).                                                       *)
C13_SourceFailureContinues ==
    /\ [][(pc \in {"cc_resolve", "cc_videos", "cc_comments"} /\ hist'.streak = hist.streak + 1)
            => /\ pc' = "post"
               /\ stats'.channels_failed = stats.channels_failed + 1
               /\ stats'.consecutive_failures = stats.consecutive_failures + 1]_vars
    /\ [][(pc = "post" /\ hist.streak > 0)
            => IF stats.consecutive_failures >= max_failures
               THEN pc' \in {"summary", "finally"}
               ELSE pc' \in {"loop", "finally"}]_vars
    /\ [](pc = "exited" /\ hist.loopExit \in {"exhausted", "quota", "streak"}
            => runs[run_id].status # "failed")

C13_Witness ==
    /\ pc = "check"
    /\ idx = 2
    /\ max_failures = 2
    /\ hist.streak = 1
    /\ stats.channels_failed = 1
    /\ stats.consecutive_failures = 1

(* C15: once a remote call of a run has failed with a quota / rate-limit   *)
(* error, no further remote call is issued and no further source is        *)
(* attempted in that run.                                                  *)
C15_QuotaErrorStopsRun ==
    [][fetch.quotaError
        => (fetch'.calls = fetch.calls /\ hist'.attempted = hist.attempted)]_vars

(* C19: when a paginated fetch gives up on a page after a transient error, *)
(* the page request was attempted max_retries times.                       *)
C19_PageFetchRetried ==
    (fetch.exit \in {"error", "disabled"} /\ fetch.failure = "transient")
        => fetch.attempts = max_retries

(* C20: an error in the comment fetch of a video does not escalate: the    *)
(* comment fetch of the next video of the channel is started, and when the *)
(* loop over the videos ends the source is counted succeeded.              *)
C20_CommentErrorContinues ==
    /\ [][(fetch.pc = "video" /\ fetch.exit \in {"disabled", "error"}
            /\ fetch.vid_idx < Len(fetch.videos))
            => (fetch'.pc = "c_gate" /\ fetch'.vid_idx = fetch.vid_idx + 1)]_vars
    /\ [][(fetch.pc = "video" /\ fetch.comment_errors > 0 /\ fetch'.pc = "done")
            => /\ pc' = "post"
               /\ stats'.channels_success = stats.channels_success + 1
               /\ stats'.channels_failed = stats.channels_failed
               /\ stats'.consecutive_failures = 0]_vars

C20_Witness ==
    /\ fetch.pc = "done"
    /\ pc = "post"
    /\ Len(fetch.videos) = 2
    /\ fetch.comment_errors = 2
    /\ fetch.exit = "disabled"
    /\ stats.channels_success = 1

(* C21: when a paginated fetch is ended by an unrecoverable signal (access *)
(* forbidden, comments disabled) it returns what it had accumulated: every *)
(* item of the pages fetched before the error.                             *)
C21_ReturnsAccumulated ==
    (fetch.pc = "c_done" /\ fetch.exit \in {"disabled", "error"})
        => CommentsReturned = fetch.comments

(* C22: when run() has returned after its loop ended (list exhausted,      *)
(* quota stop or failure streak), the checkpoint file is absent exactly    *)
(* when every source of the list of the run was attempted; a loop that     *)
(* stopped with a source not attempted leaves a checkpoint behind.         *)
C22_CheckpointDeletedIffComplete ==
    (pc = "exited" /\ hist.loopExit \in {"exhausted", "quota", "streak"})
        => ((checkpoint = NoFile) <=>
               \/ (hist.loopExit = "exhausted" /\ hist.quotaStop = 0)
               \/ (hist.loopExit = "streak" /\ idx = start_from + channels_to_process))

(* C23: overwriting the checkpoint is atomic: when a process was killed at *)
(* any point of save_checkpoint, a later load_checkpoint returns the whole *)
(* previous checkpoint (None when there was none) or the whole new one.    *)
C23_AtomicOverwrite ==
    pc = "returned"
        => hist.loaded \in {IF hist.previous = NoFile THEN NoFile
                            ELSE json_load(hist.previous),
                            hist.saved}

(* C24: whenever a source has been processed without reaching the failure  *)
(* streak and channels_attempted is a multiple of                          *)
(* checkpoint_every_n_channels, save_checkpoint is called before the next  *)
(* source starts (it may raise), with the current statistics and the       *)
(* position of the source just processed, and a process resumed from a     *)
(* checkpoint that no quota stop wrote begins with the source after that   *)
(* position.                                                               *)
C24_PeriodicCheckpoint ==
    /\ [][(/\ pc = "post" /\ pc' = "loop"
           /\ stats.channels_attempted % checkpoint_interval = 0
           /\ hist'.loopErrors = hist.loopErrors)
            => /\ checkpoint' # NoFile
               /\ hist'.saved # NoFile
               /\ json_load(checkpoint').channel_index = idx
               /\ json_load(checkpoint').stats = stats
               /\ hist.processed[idx] >= 1
               /\ hist'.saved.channel_index = idx]_vars
    /\ []((hist.loaded # NoFile /\ hist.loadedQuotaStop = 0 /\ hist.firstCollected # 0)
            => hist.firstCollected = hist.loaded.channel_index + 1)

C24_Witness ==
    /\ session = 1
    /\ pc = "check"
    /\ idx = 3
    /\ checkpoint_interval = 2
    /\ stats.channels_attempted = 2
    /\ hist.loopExit = "none"
    /\ hist.loopErrors = 0
    /\ checkpoint # NoFile
    /\ json_load(checkpoint).channel_index = 2

(* C25: once KeyboardInterrupt has been raised in the source loop, the     *)
(* process is in the interrupt path: the checkpoint was saved with the     *)
(* current position, the run was ended with status 'interrupted' and no    *)
(* further step of the loop is taken.                                      *)
C25_InterruptStopsRun ==
    (hist.loopExit = "interrupt" \/ hist.swallowed > 0)
        => /\ pc \in {"finally", "exited"}
           /\ fetch.pc = "interrupted"
           /\ runs[run_id].status = "interrupted"
           /\ checkpoint # NoFile
           /\ json_load(checkpoint).channel_index = idx

(* C26: a process whose sources file cannot be read opens no run record    *)
(* and ends none: the table collection_runs is left as it is.              *)
C26_SetupErrorRecordsNoRun ==
    [][hist'.setupError => runs' = runs]_vars

(* C27: with 5 sources, daily_quota = 50, quota_buffer = 0 and every       *)
(* channel lookup charged 10 units, the sources having no videos, run()    *)
(* returns with all 5 sources attempted and succeeded, 50 units used, the  *)
(* list exhausted, the run 'completed' and the budget gate closed.         *)
C27_Scenario ==
    (/\ pc = "exited"
     /\ stats.sources_loaded = 5
     /\ daily_quota = 50 /\ quota_buffer = 0
     /\ hist.resolution = 10)
        => /\ stats.channels_attempted = 5
           /\ stats.channels_success = 5
           /\ quota_usage = 50
           /\ hist.loopExit = "exhausted"
           /\ runs[run_id].status = "completed"
           /\ ~check_quota_available

(* C28: insert_channel is an upsert keyed by the channel id: after any     *)
(* sequence of calls the table holds, for every id, exactly one row when   *)
(* a call for it has succeeded (none otherwise), carrying the values of    *)
(* the last such call; and a call that repeats the one before it leaves    *)
(* the table as it was, last_updated_at apart.                             *)
C28_UpsertByChannelId ==
    /\ [](\A id \in ChannelIds :
            LET rows == {r \in db.channels : r.channel_id = id}
                last == hist.lastInsert[id]
            IN IF last = NoFile THEN rows = {}
               ELSE /\ Cardinality(rows) = 1
                    /\ \A r \in rows :
                        /\ r.channel_title = last.title
                        /\ IF last.subscriberCount = <<>>
                           THEN r.subscriber_count = NULL
                           ELSE Digits(r.subscriber_count) = last.subscriberCount)
    /\ [][(hist.lastCall # NoFile /\ hist.lastCall.ok /\ hist'.lastCall = hist.lastCall)
            => {[r EXCEPT !.last_updated_at = 0] : r \in db'.channels}
                 = {[r EXCEPT !.last_updated_at = 0] : r \in db.channels}]_vars

C28_Witness ==
    /\ hist.inserts = 3
    /\ hist.replaced = 2
    /\ Cardinality(db.channels) = 1
    /\ \E r \in db.channels :
        /\ r.channel_title = "Updated Title"
        /\ r.subscriber_count = 20000
        /\ r.last_updated_at = 3

(* C29: the step by which the quota pre-check stops the loop leaves        *)
(* channels_attempted, channels_success, channels_failed and               *)
(* consecutive_failures as they were, and after it collect_channel is      *)
(* called for no source, the one being checked included.                   *)
C29_QuotaStopMarksNothing ==
    /\ [][(pc = "check" /\ pc' = "summary")
            => /\ stats'.channels_attempted = stats.channels_attempted
               /\ stats'.channels_success = stats.channels_success
               /\ stats'.channels_failed = stats.channels_failed
               /\ stats'.consecutive_failures = stats.consecutive_failures
               /\ hist'.attempted = hist.attempted
               /\ hist'.processed = hist.processed]_vars
    /\ [][hist.loopExit = "quota" => hist'.attempted = hist.attempted]_vars

C29_Witness ==
    /\ pc = "exited"
    /\ session = 1
    /\ hist.loopExit = "quota"
    /\ idx = 2
    /\ stats.channels_attempted = 1
    /\ stats.sources_skipped = 1
    /\ hist.attempted[2] = 0
    /\ hist.attempted[3] = 0

(* C30: get_video_comments(video_id, max_results = m) returns at most m    *)
(* comments, top-level comments and replies together.                      *)
C30_AtMostMaxResults ==
    hist.commentsCall # NoFile
        => Len(hist.commentsCall.returned) <= hist.commentsCall.max_results

(* C31: a paginated fetch whose gate stays open and whose requests all     *)
(* succeed follows each returned cursor and stops at the first response    *)
(* without one: it goes on to the next page exactly when the response      *)
(* carried a cursor, the pages requested are 1, 2, ... n, each once, and   *)
(* what it returns is the items of these pages in page order.              *)
C31_FollowsCursorToEnd ==
    /\ [][(fetch.pc \in {"v_page", "c_page"} /\ fetch'.exit \notin {"error", "disabled"}
           /\ fetch'.pc # "interrupted")
            => IF fetch'.next_page_token # 0
               THEN /\ fetch'.pc = (IF fetch.pc = "v_page" THEN "v_gate" ELSE "c_gate")
                    /\ fetch'.exit = "none"
               ELSE /\ fetch'.pc = (IF fetch.pc = "v_page" THEN "v_done" ELSE "c_done")
                    /\ fetch'.exit = "complete"]_vars
    /\ []((fetch.pc = "v_done" /\ fetch.exit = "complete" /\ ~fetch.lost)
            => /\ fetch.pages = [i \in 1..Len(fetch.pages) |-> i]
               /\ fetch.videos = fetch.served)
    /\ []((fetch.pc = "c_done" /\ fetch.exit = "complete")
            => /\ fetch.pages = [i \in 1..Len(fetch.pages) |-> i]
               /\ CommentsReturned = fetch.served)

C31_Witness ==
    /\ fetch.pc = "c_done"
    /\ fetch.exit = "complete"
    /\ fetch.videos = <<1, 2>>
    /\ fetch.vid_idx = 2
    /\ fetch.pages = <<1, 2>>
    /\ CommentsReturned = <<<<2, 1>>, <<2, 2>>>>

(* C32: the per-page budget check bounds a paginated fetch: even when      *)
(* every response carries a further cursor, one fetch requests no more     *)
(* pages than the budget daily_quota - quota_buffer has units, the gate    *)
(* having closed by then.                                                  *)
C32_BurstBounded ==
    Len(fetch.pages) <= Limit

(* C33: the terminal state recorded for a run matches the way its loop     *)
(* ended: 'completed' is recorded only for a loop that exhausted its list, *)
(* 'interrupted' only for an interrupted one; a run stopped by the quota   *)
(* pre-check or by the failure streak is not recorded as 'completed'.      *)
C33_StatusMatchesExit ==
    pc = "exited"
        => /\ (runs[run_id].status = "completed" => hist.loopExit = "exhausted")
           /\ (runs[run_id].status = "interrupted" <=> hist.loopExit = "interrupt")

(* C34: on a client on which reset_quota_counter was not called,           *)
(* quota_cumulative - quota_usage is the initial_quota given to the        *)
(* constructor, so quota_cumulative >= quota_usage >= 0; the call of       *)
(* reset_quota_counter leaves both counters at 0, and the two are equal    *)
(* from then on.                                                           *)
C34_LedgerDifferenceIsSeed ==
    /\ [](~resetCalled => /\ quota_cumulative - quota_usage = initial_quota
                          /\ quota_cumulative >= quota_usage
                          /\ quota_usage >= 0)
    /\ [][(resetCalled' /\ ~resetCalled)
            => (quota_usage' = 0 /\ quota_cumulative' = 0)]_vars
    /\ [](resetCalled => quota_cumulative = quota_usage)

C34_Witness ==
    /\ resetCalled
    /\ initial_quota = 2
    /\ recorded = 4
    /\ quota_usage = 1
    /\ quota_cumulative = 1

(* C35: at every source boundary of the loop and from the terminal write   *)
(* on, on every exit path, channels_attempted = channels_success +         *)
(* channels_failed.                                                        *)
C35_AttemptedIsSuccessPlusFailed ==
    pc \in {"loop", "check", "summary", "cleanup", "finally", "exited"}
        => stats.channels_attempted = stats.channels_success + stats.channels_failed

(* C36: once check_quota_available has returned False, at a page, at a     *)
(* video or at a source, no further remote call is issued and no further   *)
(* source is attempted, no page is requested, and the process reaches the  *)
(* summary that precedes the terminal write.                               *)
C36_ClosedGateStopsAll ==
    /\ [][(fetch.closed \/ hist.quotaStop # 0)
            => /\ fetch'.calls = fetch.calls
               /\ hist'.attempted = hist.attempted
               /\ fetch'.pc \notin {"v_page", "c_page"}]_vars
    /\ ((fetch.closed \/ hist.quotaStop # 0) ~> pc = "summary")

C36_Witness ==
    /\ pc = "summary"
    /\ hist.loopExit = "quota"
    /\ idx = 2
    /\ fetch.closed
    /\ fetch.exit = "quota"
    /\ fetch.videos = <<1>>
    /\ fetch.vid_idx = 0
    /\ stats.channels_success = 1
    /\ hist.attempted[2] = 0

(* C37: at the terminal write that follows the loop, sources_skipped is    *)
(* the number of sources of the list of this run for which collect_channel *)
(* was not called by this process, in a fresh run and in a resumed one.    *)
C37_SkippedIsNotAttempted ==
    pc = "cleanup"
        => LET restored == IF hist.loaded = NoFile THEN 0
                           ELSE hist.loaded.stats.channels_attempted
               called == stats.channels_attempted - restored
           IN stats.sources_skipped = channels_to_process - called

(* C38: at every terminal write ('completed', 'interrupted' or 'failed')   *)
(* the quota_used passed to end_collection_run is the session counter of   *)
(* the ledger at that moment.                                              *)
C38_QuotaUsedIsSessionCounter ==
    [][(Len(runs') = Len(runs) /\ runs' # runs)
        => DbStats(runs'[run_id].status).quota_used = get_quota_usage]_vars

(* C39: after a run was ended with cumulative quota Q, under any terminal  *)
(* status, and while no later run has ended, get_last_quota_cumulative     *)
(* returns Q.                                                              *)
C39_LastKnownCumulative ==
    hist.ended # NoFile => get_last_quota_cumulative = hist.ended.quota_cumulative

(* C40: what is counted was persisted: when collect_all_videos has         *)
(* returned, every video it returned (they are added to videos_collected)  *)
(* was handed to insert_video, and when collect_all_comments has returned, *)
(* on any path, every comment it returned (they are added to               *)
(* comments_collected) was handed to insert_comments_batch.                *)
C40_CountedWasPersisted ==
    /\ fetch.pc \in {"v_done", "video", "c_gate", "c_page", "c_done", "done"}
          => SeqToSet(fetch.videos) \subseteq db.videos
    /\ fetch.pc = "c_done" => SeqToSet(CommentsReturned) \subseteq db.comments

====
